---- MODULE Spec2Model ----
(***************************************************************************)
(* posthog-context-capture: the query builder, the transport client and    *)
(* the result row mapper.                                                  *)
(*                                                                         *)
(* The repository holds two copies of the transport client:                *)
(*   "client"  src/src/client.ts      (quote-only replacement, JSON.parse) *)
(*   "mcp"     src/src/mcp-server.ts  (escapeHogQLString, safeParseJson)   *)
(* The variable `variant` fixes which copy a behaviour runs.               *)
(*                                                                         *)
(* Text is a sequence of one-character strings; the fixed pieces of a      *)
(* query template are written as multi-character fragments, except the     *)
(* quotes that delimit a literal, which are characters of their own.       *)
(***************************************************************************)
EXTENDS Integers, Sequences, FiniteSets, TLC

VARIABLES
    variant,    \* which copy of the client runs
    now,        \* the wall clock (new Date()), hours since 2000-01-01T00:00Z
    pc,         \* per slot: "idle", "fetch" (awaiting fetch) or "done"
    op,         \* per slot: the top-level operation and its arguments
    stage,      \* per slot: the client method whose request is in flight
    locals,     \* per slot: the locals of the query-building method last entered
    person,     \* per slot: the `person` local of getPersonWithEvents
    sent,       \* per slot: the query texts handed to fetch, in order
    recv,       \* per slot: the HTTP responses received, in order
    matched,    \* per slot: the rows the remote matched for the last query
    outcome,    \* per slot: what the operation returned or threw
    front,      \* per slot: the front end (tool call or CLI run) that made the call
    server      \* the tool-call server process: down, up or exited

vars == <<variant, now, pc, op, stage, locals, person, sent, recv, matched, outcome,
          front, server>>

(***************************************************************************)
(* Bounds.                                                                 *)
(***************************************************************************)
MaxLen == 2
MaxRows == 2

(***************************************************************************)
(* JavaScript values.                                                      *)
(***************************************************************************)
Undefined == [k |-> "undefined"]
Null == [k |-> "null"]
Str(s) == [k |-> "string", v |-> s]
Num(n) == [k |-> "number", v |-> n]
NaN == [k |-> "NaN"]

\* x ?? d
Coalesce(x, d) == IF x.k \in {"undefined", "null"} THEN d ELSE x

\* if (x): undefined, null, "" and 0 are falsy
Truthy(x) ==
    \/ x.k = "string" /\ x.v # <<>>
    \/ x.k = "number" /\ x.v # 0

(***************************************************************************)
(* Text helpers.                                                           *)
(***************************************************************************)
\* the value of an expression computed once: The({F(x) : x \in {e}}) is F(e)
The(S) == CHOOSE x \in S : TRUE

RECURSIVE Flatten(_)
Flatten(ss) == IF ss = <<>> THEN <<>> ELSE Head(ss) \o Flatten(Tail(ss))

\* String.prototype.replace with a /c/g pattern: every c becomes r
ReplaceAll(s, c, r) ==
    Flatten([i \in 1..Len(s) |-> IF s[i] = c THEN r ELSE <<s[i]>>])

\* String.prototype.replace with a string pattern: the first c becomes r
ReplaceFirst(s, c, r) ==
    IF \E i \in 1..Len(s) : s[i] = c
    THEN LET i == CHOOSE j \in 1..Len(s) :
                      s[j] = c /\ \A h \in 1..(j - 1) : s[h] # c
         IN SubSeq(s, 1, i - 1) \o r \o SubSeq(s, i + 1, Len(s))
    ELSE s

Digits == <<"0", "1", "2", "3", "4", "5", "6", "7", "8", "9">>
DigitChars == {Digits[i] : i \in 1..10}
DigitValue(c) == (CHOOSE i \in 1..10 : Digits[i] = c) - 1

\* String(n) for a non-negative integer
RECURSIVE NatToText(_)
NatToText(n) ==
    IF n < 10 THEN <<Digits[n + 1]>>
    ELSE NatToText(n \div 10) \o <<Digits[(n % 10) + 1]>>

\* parseInt(digits, 10) for a non-empty run of digits
RECURSIVE ParseInt(_)
ParseInt(ds) ==
    IF ds = <<>> THEN 0
    ELSE 10 * ParseInt(SubSeq(ds, 1, Len(ds) - 1)) + DigitValue(ds[Len(ds)])

\* padStart(w, "0") as toISOString applies it to each field
RECURSIVE Pad(_, _)
Pad(t, w) == IF Len(t) >= w THEN t ELSE Pad(<<"0">> \o t, w)

(***************************************************************************)
(* String escaping.                                                        *)
(***************************************************************************)
BS == "\\"
SQ == "'"

\* a variant of escapeHogQLString that escapes the backslash last
escapeHogQLString_BackslashLast(value) ==
    LET p1 == ReplaceAll(value, SQ, <<BS, SQ>>)
        p2 == ReplaceAll(p1, "NUL", <<BS, "0">>)
        p3 == ReplaceAll(p2, "\n", <<BS, "n">>)
        p4 == ReplaceAll(p3, "\r", <<BS, "r">>)
        p5 == ReplaceAll(p4, "\t", <<BS, "t">>)
        p6 == ReplaceAll(p5, BS, <<BS, BS>>)
    IN p6

\* src/src/mcp-server.ts: six replace passes, backslash first
escapeHogQLString(value) ==
    LET p1 == ReplaceAll(value, BS, <<BS, BS>>)
        p2 == ReplaceAll(p1, SQ, <<BS, SQ>>)
        p3 == ReplaceAll(p2, "NUL", <<BS, "0">>)
        p4 == ReplaceAll(p3, "\n", <<BS, "n">>)
        p5 == ReplaceAll(p4, "\r", <<BS, "r">>)
        p6 == ReplaceAll(p5, "\t", <<BS, "t">>)
    IN p6

\* src/src/client.ts: value.replace(/'/g, "\\'")
replaceQuotes(value) == ReplaceAll(value, SQ, <<BS, SQ>>)

\* the escaping the running copy applies at each interpolation
EscapeOf(v, value) ==
    IF v = "mcp" THEN escapeHogQLString(value) ELSE replaceQuotes(value)

(***************************************************************************)
(* Dates.  A Date is [valid |-> FALSE] (Invalid Date) or a point in time   *)
(* counted in hours since 2000-01-01T00:00Z; the process runs in UTC, and  *)
(* minutes, seconds and milliseconds are zero.                             *)
(***************************************************************************)
InvalidDate == [valid |-> FALSE]
DateAt(t) == [valid |-> TRUE, t |-> t]

IsLeap(y) == (y % 4 = 0 /\ y % 100 # 0) \/ y % 400 = 0
DaysInMonth(y, m) ==
    IF m = 1 THEN (IF IsLeap(y) THEN 29 ELSE 28)
    ELSE IF m \in {3, 5, 8, 10} THEN 30 ELSE 31

LeapsBefore(y) == ((y - 1) \div 4) - ((y - 1) \div 100) + ((y - 1) \div 400)
DaysBeforeYear(y) == 365 * (y - 2000) + (LeapsBefore(y) - LeapsBefore(2000))

RECURSIVE DaysBeforeMonth(_, _)
DaysBeforeMonth(y, m) ==
    IF m = 0 THEN 0 ELSE DaysBeforeMonth(y, m - 1) + DaysInMonth(y, m - 1)

\* MakeDay/MakeDate: months (0-based) outside 0..11 carry into the year, days
\* and hours outside their range roll over into the neighbouring months
MakeTime(y, m, d, h) ==
    LET yy == y + (m \div 12)
        mm == m % 12
    IN (DaysBeforeYear(yy) + DaysBeforeMonth(yy, mm) + (d - 1)) * 24 + h

\* the calendar fields of a point in time (getFullYear, getMonth, getDate,
\* getHours); a year is 365 or 366 days, so it is one of two candidates
YearMonthOf(t) ==
    CHOOSE p \in {2000 + ((t \div 24) \div 366), 2001 + ((t \div 24) \div 366)} \X (0..11) :
        MakeTime(p[1], p[2], 1, 0) <= t /\ t < MakeTime(p[1], p[2] + 1, 1, 0)
CivilIn(t, p) ==
    [y |-> p[1], m |-> p[2],
     d |-> ((t - MakeTime(p[1], p[2], 1, 0)) \div 24) + 1,
     h |-> t % 24]
Civil(t) == CivilIn(t, YearMonthOf(t))

\* now.setHours(h), now.setDate(d), now.setMonth(m)
SetHours(t, h) == LET c == Civil(t) IN MakeTime(c.y, c.m, c.d, h)
SetDate(t, d) == LET c == Civil(t) IN MakeTime(c.y, c.m, d, c.h)
SetMonth(t, m) == LET c == Civil(t) IN MakeTime(c.y, m, c.d, c.h)

\* new Date(dateString) for a string the relative pattern does not match:
\* YYYY-MM-DD with a real month and day is that day's midnight (UTC); the
\* other strings of the model (empty, letters only, or a number followed by a
\* letter that is no unit) are Invalid Date
IsIsoDay(s) ==
    /\ Len(s) = 10
    /\ s[5] = "-" /\ s[8] = "-"
    /\ \A i \in {1, 2, 3, 4, 6, 7, 9, 10} : s[i] \in DigitChars
    /\ LET y == ParseInt(SubSeq(s, 1, 4))
           m == ParseInt(SubSeq(s, 6, 7))
           d == ParseInt(SubSeq(s, 9, 10))
       IN /\ y \in 1990..2039
          /\ m \in 1..12
          /\ d \in 1..DaysInMonth(y, m - 1)
NewDate(s) ==
    IF IsIsoDay(s)
    THEN DateAt(MakeTime(ParseInt(SubSeq(s, 1, 4)),
                         ParseInt(SubSeq(s, 6, 7)) - 1,
                         ParseInt(SubSeq(s, 9, 10)), 0))
    ELSE InvalidDate

\* dateString.match(/^(\d+)([dhwm])$/)
MatchesRelative(s) ==
    /\ Len(s) >= 2
    /\ s[Len(s)] \in {"d", "h", "w", "m"}
    /\ \A i \in 1..(Len(s) - 1) : s[i] \in DigitChars

\* src/src/client.ts: the calendar setters of Date
parseRelativeDate_client(dateString, clock) ==
    IF ~MatchesRelative(dateString) THEN NewDate(dateString)
    ELSE LET amount == ParseInt(SubSeq(dateString, 1, Len(dateString) - 1))
             unit == dateString[Len(dateString)]
         IN CASE unit = "h" -> DateAt(SetHours(clock, Civil(clock).h - amount))
              [] unit = "d" -> DateAt(SetDate(clock, Civil(clock).d - amount))
              [] unit = "w" -> DateAt(SetDate(clock, Civil(clock).d - amount * 7))
              [] unit = "m" -> DateAt(SetMonth(clock, Civil(clock).m - amount))

\* src/src/mcp-server.ts: millisecond arithmetic, setMonth for months
parseRelativeDate_mcp(dateString, clock) ==
    IF ~MatchesRelative(dateString) THEN NewDate(dateString)
    ELSE LET amount == ParseInt(SubSeq(dateString, 1, Len(dateString) - 1))
             unit == dateString[Len(dateString)]
         IN CASE unit = "h" -> DateAt(clock - amount)
              [] unit = "d" -> DateAt(clock - amount * 24)
              [] unit = "w" -> DateAt(clock - amount * 7 * 24)
              [] unit = "m" -> DateAt(SetMonth(clock, Civil(clock).m - amount))

\* a variant of parseRelativeDate that counts a week as one day
parseRelativeDate_WeekAsDay(v, dateString, clock) ==
    LET asDays == IF dateString # <<>> /\ dateString[Len(dateString)] = "w"
                  THEN SubSeq(dateString, 1, Len(dateString) - 1) \o <<"d">>
                  ELSE dateString
    IN IF v = "mcp" THEN parseRelativeDate_mcp(asDays, clock)
       ELSE parseRelativeDate_client(asDays, clock)

parseRelativeDate(v, dateString, clock) ==
    IF v = "mcp" THEN parseRelativeDate_mcp(dateString, clock)
    ELSE parseRelativeDate_client(dateString, clock)

\* Date.prototype.toISOString: RangeError on an Invalid Date
toISOString(date) ==
    IF ~date.valid THEN [ok |-> FALSE, err |-> "RangeError: Invalid time value"]
    ELSE LET c == Civil(date.t)
         IN [ok |-> TRUE,
             text |-> Pad(NatToText(c.y), 4) \o <<"-">>
                      \o Pad(NatToText(c.m + 1), 2) \o <<"-">>
                      \o Pad(NatToText(c.d), 2) \o <<"T">>
                      \o Pad(NatToText(c.h), 2)
                      \o <<":", "0", "0", ":", "0", "0", ".", "0", "0", "0", "Z">>]

\* a variant of formatDateForHogQL that writes an Invalid Date as text
formatDateForHogQL_Lenient(date) ==
    IF ~date.valid THEN [ok |-> TRUE, text |-> <<"Invalid Date">>]
    ELSE [ok |-> TRUE,
          text |-> ReplaceFirst(ReplaceFirst(toISOString(date).text, "T", <<" ">>),
                                "Z", <<>>)]

\* date.toISOString().replace("T", " ").replace("Z", "")
formatDateForHogQL(date) ==
    LET iso == toISOString(date)
    IN IF ~iso.ok THEN iso
       ELSE [ok |-> TRUE,
             text |-> ReplaceFirst(ReplaceFirst(iso.text, "T", <<" ">>), "Z", <<>>)]

\* clauses.join(" AND ")
RECURSIVE Join(_, _)
Join(parts, sep) ==
    IF parts = <<>> THEN <<>>
    ELSE IF Len(parts) = 1 THEN parts[1]
    ELSE parts[1] \o sep \o Join(Tail(parts), sep)

\* one pushed clause: `timestamp >= '${formatted}'`
TimestampBound(cmp, formatted) == <<cmp, SQ>> \o formatted \o <<SQ>>

\* the formatted bound of an option that is set; dateString.match of a value
\* that is not a string throws TypeError
ResolvedBound(v, option, clock) ==
    IF Truthy(option)
    THEN IF option.k # "string"
         THEN [ok |-> FALSE, err |-> "TypeError: dateString.match is not a function"]
         ELSE formatDateForHogQL(parseRelativeDate(v, option.v, clock))
    ELSE [ok |-> TRUE, text |-> <<>>]

\* a variant of JoinedClauses that pushes the upper bound first
JoinedClauses_ToFirst(from, to, f, t) ==
    LET c1 == IF Truthy(from)
              THEN <<TimestampBound("timestamp >= ", f.text)>> ELSE <<>>
        c2 == IF Truthy(to)
              THEN <<TimestampBound("timestamp <= ", t.text)>> ELSE <<>>
    IN IF ~f.ok THEN f
       ELSE IF ~t.ok THEN t
       ELSE [ok |-> TRUE,
             text |-> IF Len(c2 \o c1) > 0
                      THEN <<" AND ">> \o Join(c2 \o c1, <<" AND ">>)
                      ELSE <<>>]

\* the clauses pushed for the formatted bounds f and t, joined
JoinedClauses(from, to, f, t) ==
    LET c1 == IF Truthy(from)
              THEN <<TimestampBound("timestamp >= ", f.text)>> ELSE <<>>
        c2 == IF Truthy(to)
              THEN <<TimestampBound("timestamp <= ", t.text)>> ELSE <<>>
    IN IF ~f.ok THEN f
       ELSE IF ~t.ok THEN t
       ELSE [ok |-> TRUE,
             text |-> IF Len(c1 \o c2) > 0
                      THEN <<" AND ">> \o Join(c1 \o c2, <<" AND ">>)
                      ELSE <<>>]

\* buildTimestampClause({ options: { from, to } }); a throw of the formatter
\* leaves the builder before anything is returned
buildTimestampClause(v, from, to, clock) ==
    The({JoinedClauses(from, to, f, t) :
             f \in {ResolvedBound(v, from, clock)},
             t \in {ResolvedBound(v, to, clock)}})

(***************************************************************************)
(* Query construction.  Each builder gives the locals of its method and    *)
(* either the query text or the error thrown before the text was built.    *)
(***************************************************************************)
\* a parameter default (`limit = 10`) replaces undefined only
DefaultParam(x, d) == IF x.k = "undefined" THEN d ELSE x

\* `${effectiveLimit}`: an integer in decimal, a string as it is
NumberText(x) ==
    IF x.k = "string" THEN x.v
    ELSE IF x.k = "NaN" THEN <<"N", "a", "N">>
    ELSE IF x.v < 0 THEN <<"-">> \o NatToText(0 - x.v) ELSE NatToText(x.v)

Quoted(v, value) == <<SQ>> \o EscapeOf(v, value) \o <<SQ>>

SelectPerson == "SELECT id, properties FROM persons WHERE properties.email = "
SelectPersons ==
    "SELECT DISTINCT person.id, person.properties FROM events WHERE event = "
SelectEvents ==
    "SELECT event, timestamp, properties FROM events WHERE person_id = "
OrderLimit == " ORDER BY timestamp DESC LIMIT "

Query_getPersonByEmail(v, email) ==
    [ok |-> TRUE,
     locals |-> [method |-> "getPersonByEmail"],
     text |-> <<SelectPerson>> \o Quoted(v, email) \o <<" LIMIT 1">>]

\* a variant of PersonsQuery that always writes the default limit
PersonsQuery_DefaultLimit(v, eventName, effectiveLimit, timestampClause) ==
    IF ~timestampClause.ok
    THEN [ok |-> FALSE, err |-> timestampClause.err,
          locals |-> [method |-> "getPersonsByEvent"]]
    ELSE [ok |-> TRUE,
          locals |-> [method |-> "getPersonsByEvent",
                      timestampClause |-> timestampClause.text,
                      effectiveLimit |-> effectiveLimit],
          text |-> <<SelectPersons>> \o Quoted(v, eventName)
                   \o timestampClause.text
                   \o <<OrderLimit>> \o NumberText(Num(10))]

\* getPersonsByEvent once its timestampClause was built
PersonsQuery(v, eventName, effectiveLimit, timestampClause) ==
    IF ~timestampClause.ok
    THEN [ok |-> FALSE, err |-> timestampClause.err,
          locals |-> [method |-> "getPersonsByEvent"]]
    ELSE [ok |-> TRUE,
          locals |-> [method |-> "getPersonsByEvent",
                      timestampClause |-> timestampClause.text,
                      effectiveLimit |-> effectiveLimit],
          text |-> <<SelectPersons>> \o Quoted(v, eventName)
                   \o timestampClause.text
                   \o <<OrderLimit>> \o NumberText(effectiveLimit)]

Query_getPersonsByEvent(v, eventName, limitArg, from, to, clock) ==
    The({PersonsQuery(v, eventName,
                      Coalesce(DefaultParam(limitArg, Num(10)), Num(10)),
                      timestampClause) :
             timestampClause \in {buildTimestampClause(v, from, to, clock)}})

eventTypeClauseOf(v, eventType) ==
    IF Truthy(eventType)
    THEN <<" AND event = ">> \o Quoted(v, eventType.v)
    ELSE <<>>

\* a variant of EventsQuery that writes the event filter after the timestamps
EventsQuery_FilterLast(v, personId, effectiveLimit, eventType, effectiveFrom, timestampClause) ==
    IF ~timestampClause.ok
    THEN [ok |-> FALSE, err |-> timestampClause.err,
          locals |-> [method |-> "getPersonEvents",
                      effectiveFrom |-> effectiveFrom]]
    ELSE IF Truthy(eventType) /\ eventType.k # "string"
    THEN [ok |-> FALSE, err |-> "TypeError: eventType.replace is not a function",
          locals |-> [method |-> "getPersonEvents",
                      effectiveFrom |-> effectiveFrom]]
    ELSE [ok |-> TRUE,
          locals |-> [method |-> "getPersonEvents",
                      effectiveFrom |-> effectiveFrom,
                      timestampClause |-> timestampClause.text,
                      eventTypeClause |-> eventTypeClauseOf(v, eventType),
                      effectiveLimit |-> effectiveLimit],
          text |-> <<SelectEvents>> \o Quoted(v, personId)
                   \o timestampClause.text \o eventTypeClauseOf(v, eventType)
                   \o <<OrderLimit>> \o NumberText(effectiveLimit)]

\* getPersonEvents once its timestampClause was built
EventsQuery(v, personId, effectiveLimit, eventType, effectiveFrom, timestampClause) ==
    IF ~timestampClause.ok
    THEN [ok |-> FALSE, err |-> timestampClause.err,
          locals |-> [method |-> "getPersonEvents",
                      effectiveFrom |-> effectiveFrom]]
    ELSE IF Truthy(eventType) /\ eventType.k # "string"
    THEN [ok |-> FALSE, err |-> "TypeError: eventType.replace is not a function",
          locals |-> [method |-> "getPersonEvents",
                      effectiveFrom |-> effectiveFrom]]
    ELSE [ok |-> TRUE,
          locals |-> [method |-> "getPersonEvents",
                      effectiveFrom |-> effectiveFrom,
                      timestampClause |-> timestampClause.text,
                      eventTypeClause |-> eventTypeClauseOf(v, eventType),
                      effectiveLimit |-> effectiveLimit],
          text |-> <<SelectEvents>> \o Quoted(v, personId)
                   \o eventTypeClauseOf(v, eventType) \o timestampClause.text
                   \o <<OrderLimit>> \o NumberText(effectiveLimit)]

\* a variant of effectiveFromOf without the default
effectiveFromOf_NoDefault(from) == from

\* const effectiveFrom = from ?? "30d"
effectiveFromOf(from) == Coalesce(from, Str(<<"3", "0", "d">>))

Query_getPersonEvents(v, personId, limitArg, eventType, from, to, clock) ==
    The({EventsQuery(v, personId,
                     Coalesce(DefaultParam(limitArg, Num(50)), Num(50)),
                     eventType, effectiveFromOf(from), timestampClause) :
             timestampClause \in
                 {buildTimestampClause(v, effectiveFromOf(from), to, clock)}})

(***************************************************************************)
(* JSON property payloads and the row mappers.                             *)
(***************************************************************************)
JsonObject == "{\"plan\":\"pro\"}"
JsonArray == "[1]"
JsonMalformed == "{bad"
JsonTexts == {JsonObject, JsonArray, JsonMalformed}
\* the JSON texts that are neither an object nor an array
JsonPrimitives == {"null", "1", "\"s\"", "true"}

EmptyObject == [type |-> "object", members |-> {}]

\* JSON.parse on the payloads of the model
JSONParse(json) ==
    CASE json = JsonObject ->
             [ok |-> TRUE,
              value |-> [type |-> "object", members |-> {<<"plan", "pro">>}]]
      [] json = JsonArray ->
             [ok |-> TRUE, value |-> [type |-> "array", members |-> {<<"0", "1">>}]]
      [] json \in JsonPrimitives ->
             [ok |-> TRUE,
              value |-> [type |-> CASE json = "null" -> "null"
                                    [] json = "1" -> "number"
                                    [] json = "true" -> "boolean"
                                    [] OTHER -> "string",
                         members |-> {<<json, json>>}]]
      [] OTHER -> [ok |-> FALSE, err |-> "SyntaxError"]

\* src/src/mcp-server.ts safeParseJson: {} unless the text parses to an object
safeParseJson(json) ==
    LET parsed == JSONParse(json)
    IN IF parsed.ok
       THEN IF parsed.value.type = "object" THEN parsed ELSE
                [ok |-> TRUE, value |-> EmptyObject]
       ELSE [ok |-> TRUE, value |-> EmptyObject]

\* the parse each copy applies to a properties column
ParseProperties(v, json) ==
    IF v = "mcp" THEN safeParseJson(json) ELSE JSONParse(json)

PersonOf(v, row) ==
    [id |-> row[1], distinctIds |-> <<>>,
     properties |-> ParseProperties(v, row[2]).value]
EventOf(v, row) ==
    [event |-> row[1], timestamp |-> row[2],
     properties |-> ParseProperties(v, row[3]).value]

\* results.map(...): the first payload that fails to parse throws out of map
RowsParse(v, rows, col) == \A i \in 1..Len(rows) : ParseProperties(v, rows[i][col]).ok

Returned(value) == [k |-> "returned", value |-> value]
Threw(name, message) == [k |-> "threw", name |-> name, message |-> message]
Pending == [k |-> "pending"]

NullValue == [t |-> "null"]
PersonValue(p) == [t |-> "person", person |-> p]
ListValue(items) == [t |-> "list", items |-> items]
PersonWithEventsValue(p, es) == [t |-> "personWithEvents", person |-> p, events |-> es]

\* getPersonByEmail after executeQuery returned
Map_getPersonByEmail(v, rows) ==
    IF Len(rows) = 0 THEN Returned(NullValue)
    ELSE IF ~ParseProperties(v, rows[1][2]).ok
         THEN Threw("SyntaxError", <<"Unexpected token in JSON">>)
         ELSE Returned(PersonValue(PersonOf(v, rows[1])))

\* getPersonsByEvent after executeQuery returned
Map_getPersonsByEvent(v, rows) ==
    IF ~RowsParse(v, rows, 2)
    THEN Threw("SyntaxError", <<"Unexpected token in JSON">>)
    ELSE Returned(ListValue([i \in 1..Len(rows) |-> PersonOf(v, rows[i])]))

\* getPersonEvents after executeQuery returned
Map_getPersonEvents(v, rows) ==
    IF ~RowsParse(v, rows, 3)
    THEN Threw("SyntaxError", <<"Unexpected token in JSON">>)
    ELSE Returned(ListValue([i \in 1..Len(rows) |-> EventOf(v, rows[i])]))

\* a variant of ApiError that drops the response body from the message
ApiError_NoBody(status, errorText) ==
    Threw("Error", <<"PostHog API error (">> \o NatToText(status) \o <<")">>)

\* executeQuery on a non-success response:
\* throw new Error(`PostHog API error (${response.status}): ${errorText}`)
ApiError(status, errorText) ==
    Threw("Error",
          <<"PostHog API error (">> \o NatToText(status) \o <<"): ">> \o errorText)

(***************************************************************************)
(* Inputs.                                                                 *)
(***************************************************************************)
Variants == {"client", "mcp"}
Slots == {"A", "B"}
\* the slot of the specifications that run one operation at a time
Sequential == {"A"}

\* 2024-03-31T10:00Z and 2024-01-15T00:00Z
Instants == {MakeTime(2024, 2, 31, 10), MakeTime(2024, 0, 15, 0)}

Chars == {"a", SQ, BS}
RECURSIVE StringsUpTo(_)
StringsUpTo(n) ==
    IF n = 0 THEN {<<>>}
    ELSE LET shorter == StringsUpTo(n - 1)
         IN shorter \cup {Append(t, c) : t \in shorter, c \in Chars}
Strings == StringsUpTo(MaxLen)

IsoDay == <<"2", "0", "2", "4", "-", "0", "1", "-", "1", "5">>
DateStrings ==
    {<<>>, <<"7", "d">>, <<"2", "h">>, <<"1", "w">>, <<"1", "m">>,
     <<"3", "0", "d">>, IsoDay, <<"x">>, <<"7", "D">>, <<"1", "y">>}
Optional(S) == {Undefined, Null} \cup {Str(x) : x \in S}

Ids == {<<"p", "1">>, <<"p", "2">>}
PersonRows == {<<id, json>> : id \in Ids, json \in JsonTexts}
EventRows == {<<<<"pageview">>, <<"t1">>, json>> : json \in JsonTexts}
RECURSIVE RowsUpTo(_, _)
RowsUpTo(R, n) ==
    IF n = 0 THEN {<<>>}
    ELSE LET shorter == RowsUpTo(R, n - 1)
         IN shorter \cup {Append(rs, r) : rs \in shorter, r \in R}


OkResponse(rows) == [ok |-> TRUE, status |-> 200, text |-> <<>>, results |-> rows]
ErrorResponse(status, text) ==
    [ok |-> FALSE, status |-> status, text |-> text, results |-> <<>>]

(***************************************************************************)
(* The operations.  An action runs a handler from one await to the next.   *)
(***************************************************************************)
Idle == [name |-> "none"]
NoFront == [kind |-> "none"]
NoLocals == [method |-> "none"]
NoPerson == [t |-> "none"]

Init ==
    /\ variant \in Variants
    /\ now \in Instants
    /\ pc = [s \in Slots |-> "idle"]
    /\ op = [s \in Slots |-> Idle]
    /\ stage = [s \in Slots |-> "none"]
    /\ locals = [s \in Slots |-> NoLocals]
    /\ person = [s \in Slots |-> NoPerson]
    /\ sent = [s \in Slots |-> <<>>]
    /\ recv = [s \in Slots |-> <<>>]
    /\ matched = [s \in Slots |-> <<>>]
    /\ outcome = [s \in Slots |-> Pending]
    /\ front = [s \in Slots |-> NoFront]
    /\ server = [state |-> "down"]

\* the error a query builder left its method with
ThrownBy(err) ==
    IF err = "RangeError: Invalid time value"
    THEN Threw("RangeError", <<"Invalid time value">>)
    ELSE Threw("TypeError", <<err>>)

\* a variant of Enter that hands the query to fetch twice at once
Enter_Batched(s, method, q) ==
    /\ locals' = [locals EXCEPT ![s] = q.locals]
    /\ IF q.ok
       THEN /\ stage' = [stage EXCEPT ![s] = method]
            /\ sent' = [sent EXCEPT ![s] = Append(Append(@, q.text), q.text)]
            /\ pc' = [pc EXCEPT ![s] = "fetch"]
            /\ outcome' = [outcome EXCEPT ![s] = Pending]
       ELSE /\ stage' = [stage EXCEPT ![s] = "none"]
            /\ sent' = sent
            /\ pc' = [pc EXCEPT ![s] = "done"]
            /\ outcome' = [outcome EXCEPT ![s] = ThrownBy(q.err)]

\* a client method was entered with the query (or the throw) q: executeQuery
\* hands the text to fetch and awaits, or the error leaves the operation
Enter(s, method, q) ==
    /\ locals' = [locals EXCEPT ![s] = q.locals]
    /\ IF q.ok
       THEN /\ stage' = [stage EXCEPT ![s] = method]
            /\ sent' = [sent EXCEPT ![s] = Append(@, q.text)]
            /\ pc' = [pc EXCEPT ![s] = "fetch"]
            /\ outcome' = [outcome EXCEPT ![s] = Pending]
       ELSE /\ stage' = [stage EXCEPT ![s] = "none"]
            /\ sent' = sent
            /\ pc' = [pc EXCEPT ![s] = "done"]
            /\ outcome' = [outcome EXCEPT ![s] = ThrownBy(q.err)]

\* the operation of slot s ends with outcome o
Finish(s, o) ==
    /\ pc' = [pc EXCEPT ![s] = "done"]
    /\ stage' = [stage EXCEPT ![s] = "none"]
    /\ outcome' = [outcome EXCEPT ![s] = o]

Call_getPersonByEmail(s, email) ==
    /\ pc[s] = "idle"
    /\ op' = [op EXCEPT ![s] = [name |-> "getPersonByEmail", email |-> email]]
    /\ \E q \in {Query_getPersonByEmail(variant, email)} :
           Enter(s, "getPersonByEmail", q)
    /\ UNCHANGED <<variant, now, front, server, matched, recv, person>>

Call_getPersonsByEvent(s, eventName, limit, from, to) ==
    /\ pc[s] = "idle"
    /\ op' = [op EXCEPT ![s] =
                 [name |-> "getPersonsByEvent", eventName |-> eventName,
                  limit |-> limit, from |-> from, to |-> to]]
    /\ \E q \in {Query_getPersonsByEvent(variant, eventName, limit, from, to, now)} :
           Enter(s, "getPersonsByEvent", q)
    /\ UNCHANGED <<variant, now, front, server, matched, recv, person>>

Call_getPersonEvents(s, personId, limit, eventType, from, to) ==
    /\ pc[s] = "idle"
    /\ op' = [op EXCEPT ![s] =
                 [name |-> "getPersonEvents", personId |-> personId,
                  limit |-> limit, eventType |-> eventType,
                  from |-> from, to |-> to]]
    /\ \E q \in {Query_getPersonEvents(variant, personId, limit, eventType,
                                        from, to, now)} :
           Enter(s, "getPersonEvents", q)
    /\ UNCHANGED <<variant, now, front, server, matched, recv, person>>

\* getPersonWithEvents up to its first await: the email lookup is sent
Call_getPersonWithEvents(s, email, eventsLimit, eventType, from, to) ==
    /\ pc[s] = "idle"
    /\ op' = [op EXCEPT ![s] =
                 [name |-> "getPersonWithEvents", email |-> email,
                  eventsLimit |-> DefaultParam(eventsLimit, Num(50)),
                  eventType |-> eventType, from |-> from, to |-> to]]
    /\ \E q \in {Query_getPersonByEmail(variant, email)} :
           Enter(s, "getPersonByEmail", q)
    /\ UNCHANGED <<variant, now, front, server, matched, recv, person>>

\* a variant of RespondError that sends the failed query once more
RespondError_Retry(s, status, text) ==
    /\ pc[s] = "fetch"
    /\ recv' = [recv EXCEPT ![s] = Append(@, ErrorResponse(status, text))]
    /\ IF Len(recv[s]) < Len(sent[s]) /\ Len(sent[s]) < 3
       THEN /\ sent' = [sent EXCEPT ![s] = Append(@, sent[s][Len(sent[s])])]
            /\ UNCHANGED <<pc, stage, outcome>>
       ELSE /\ Finish(s, ApiError(status, text))
            /\ sent' = sent
    /\ UNCHANGED <<variant, now, front, server, matched, op, locals, person>>

\* fetch resolves with a non-success status: executeQuery reads the body text
\* and throws; no caller up to the top-level operation catches
RespondError(s, status, text) ==
    /\ pc[s] = "fetch"
    /\ recv' = [recv EXCEPT ![s] = Append(@, ErrorResponse(status, text))]
    /\ Finish(s, ApiError(status, text))
    /\ UNCHANGED <<variant, now, front, server, matched, op, locals, person, sent>>

\* a variant of AfterPerson without the `if (!person) return null` guard:
\* the events lookup is sent for an absent person too
AfterPerson_NoGuard(s, r) ==
    IF r.k = "threw"
    THEN Finish(s, r) /\ UNCHANGED <<locals, person, sent>>
    ELSE /\ person' = [person EXCEPT ![s] = r.value]
         /\ \E q \in {Query_getPersonEvents(variant,
                                              IF r.value = NullValue THEN <<>>
                                              ELSE r.value.person.id,
                                              op[s].eventsLimit, op[s].eventType,
                                              op[s].from, op[s].to, now)} :
                Enter(s, "getPersonEvents", q)

\* a variant of AfterPerson that reads the options of the events lookup from
\* where the latest caller left them, as if they were kept in a field of the
\* client
AfterPerson_SharedOptions(s, r) ==
    IF r.k = "threw" \/ r.value = NullValue
    THEN /\ Finish(s, IF r.k = "threw" THEN r ELSE Returned(NullValue))
         /\ UNCHANGED <<locals, person, sent>>
    ELSE /\ person' = [person EXCEPT ![s] = r.value.person]
         /\ \E t \in {IF \E u \in Slots \ {s} : op[u].name = "getPersonWithEvents"
                      THEN CHOOSE u \in Slots \ {s} : op[u].name = "getPersonWithEvents"
                      ELSE s} :
            \E q \in {Query_getPersonEvents(variant, r.value.person.id,
                                              op[t].eventsLimit, op[t].eventType,
                                              op[t].from, op[t].to, now)} :
                Enter(s, "getPersonEvents", q)

\* getPersonWithEvents after its getPersonByEmail settled with r
AfterPerson(s, r) ==
    IF r.k = "threw" \/ r.value = NullValue
    THEN /\ Finish(s, IF r.k = "threw" THEN r ELSE Returned(NullValue))
         /\ UNCHANGED <<locals, person, sent>>
    ELSE /\ person' = [person EXCEPT ![s] = r.value.person]
         /\ \E q \in {Query_getPersonEvents(variant, r.value.person.id,
                                              op[s].eventsLimit, op[s].eventType,
                                              op[s].from, op[s].to, now)} :
                Enter(s, "getPersonEvents", q)

\* the email lookup is answered with rows
RespondPerson(s, rows) ==
    /\ pc[s] = "fetch" /\ stage[s] = "getPersonByEmail"
    /\ recv' = [recv EXCEPT ![s] = Append(@, OkResponse(rows))]
    /\ \E r \in {Map_getPersonByEmail(variant, rows)} :
           IF op[s].name = "getPersonWithEvents"
           THEN AfterPerson(s, r)
           ELSE Finish(s, r) /\ UNCHANGED <<locals, person, sent>>
    /\ UNCHANGED <<variant, now, front, server, matched, op>>

\* the persons-by-event query is answered with rows
RespondPersons(s, rows) ==
    /\ pc[s] = "fetch" /\ stage[s] = "getPersonsByEvent"
    /\ recv' = [recv EXCEPT ![s] = Append(@, OkResponse(rows))]
    /\ Finish(s, Map_getPersonsByEvent(variant, rows))
    /\ UNCHANGED <<variant, now, front, server, matched, op, locals, person, sent>>

\* getPersonWithEvents after its getPersonEvents settled with r
WithPerson(s, r) ==
    IF r.k = "threw" THEN r
    ELSE Returned(PersonWithEventsValue(person[s], r.value.items))

\* the events query is answered with rows
RespondEvents(s, rows) ==
    /\ pc[s] = "fetch" /\ stage[s] = "getPersonEvents"
    /\ recv' = [recv EXCEPT ![s] = Append(@, OkResponse(rows))]
    /\ \E r \in {Map_getPersonEvents(variant, rows)} :
           Finish(s, IF op[s].name = "getPersonWithEvents" THEN WithPerson(s, r) ELSE r)
    /\ UNCHANGED <<variant, now, front, server, matched, op, locals, person, sent>>

\* the caller has the outcome; nothing of the call outlives it
Settle(s) ==
    /\ pc[s] = "done"
    /\ pc' = [pc EXCEPT ![s] = "idle"]
    /\ op' = [op EXCEPT ![s] = Idle]
    /\ stage' = [stage EXCEPT ![s] = "none"]
    /\ locals' = [locals EXCEPT ![s] = NoLocals]
    /\ person' = [person EXCEPT ![s] = NoPerson]
    /\ sent' = [sent EXCEPT ![s] = <<>>]
    /\ recv' = [recv EXCEPT ![s] = <<>>]
    /\ matched' = [matched EXCEPT ![s] = <<>>]
    /\ outcome' = [outcome EXCEPT ![s] = Pending]
    /\ UNCHANGED <<variant, now, front, server>>

(***************************************************************************)
(* Spec: one operation at a time against a remote that may answer with any *)
(* error or with any rows.                                                 *)
(***************************************************************************)

Respond(s) ==
    \/ \E status \in {404, 500}, text \in {<<>>, <<"denied">>} : RespondError(s, status, text)
    \/ \E rows \in RowsUpTo(PersonRows, MaxRows) : RespondPerson(s, rows)
    \/ \E rows \in RowsUpTo(PersonRows, MaxRows) : RespondPersons(s, rows)
    \/ \E rows \in RowsUpTo(EventRows, MaxRows) : RespondEvents(s, rows)

Next ==
    \E s \in Sequential :
        \/ \E email \in {<<"a">>, <<BS, SQ>>} : Call_getPersonByEmail(s, email)
        \/ \E eventName \in {<<"a">>, <<BS, SQ>>},
              from \in {Undefined, Str(<<"7", "d">>), Str(<<"x">>)},
              to \in {Undefined, Str(<<"x">>)} :
               Call_getPersonsByEvent(s, eventName, Undefined, from, to)
        \/ \E personId \in {<<"a">>, <<BS, SQ>>},
              eventType \in {Undefined, Str(<<"a">>)},
              from \in {Undefined, Str(<<"7", "d">>), Str(<<"x">>)},
              to \in {Undefined, Str(<<"x">>)} :
               Call_getPersonEvents(s, personId, Undefined, eventType, from, to)
        \/ \E email \in {<<"a">>, <<BS, SQ>>},
              eventType \in {Undefined, Str(<<"a">>)},
              from \in {Undefined, Str(<<"7", "d">>), Str(<<"x">>)},
              to \in {Undefined, Str(<<"x">>)} :
               Call_getPersonWithEvents(s, email, Undefined, eventType, from, to)
        \/ Respond(s)
        \/ Settle(s)

Spec == Init /\ [][Next]_vars

(***************************************************************************)
(* SpecQuery: the query builders over every string up to MaxLen and every  *)
(* date expression of the model.  The remote answers an email lookup with  *)
(* one well-formed row, so that getPersonWithEvents reaches its events     *)
(* query; no other response is modelled here.                              *)
(***************************************************************************)
FewDates == {Undefined, Str(<<"7", "d">>)}
OneString == {<<"a">>}

\* the strings swept, with few dates and the default limit
SweepStrings(s) ==
    \/ \E email \in Strings : Call_getPersonByEmail(s, email)
    \/ \E eventName \in Strings, from \in FewDates :
           Call_getPersonsByEvent(s, eventName, Undefined, from, Undefined)
    \/ \E personId \in Strings, eventType \in Optional(Strings), from \in FewDates :
           Call_getPersonEvents(s, personId, Undefined, eventType, from, Undefined)
    \/ \E email \in Strings, eventType \in Optional(Strings), from \in FewDates :
           Call_getPersonWithEvents(s, email, Undefined, eventType, from, Undefined)

\* the dates and limits swept, with one string
SweepDates(s) ==
    \E str \in OneString, limit \in {Undefined, Null, Num(2)},
       from \in Optional(DateStrings), to \in Optional(DateStrings) :
        \/ Call_getPersonsByEvent(s, str, limit, from, to)
        \/ Call_getPersonEvents(s, str, limit, Undefined, from, to)
        \/ Call_getPersonWithEvents(s, str, limit, Undefined, from, to)

NextQuery ==
    \E s \in Sequential :
        \/ SweepStrings(s)
        \/ SweepDates(s)
        \/ \E rows \in {<<<<id, JsonObject>>>> : id \in Ids} : RespondPerson(s, rows)
        \/ Settle(s)

SpecQuery == Init /\ [][NextQuery]_vars

(***************************************************************************)
(* SpecLimit: getPersonsByEvent against a remote that holds the rows       *)
(* matching the query, newest first, and answers with as many of them as   *)
(* the LIMIT written in the query allows.                                  *)
(***************************************************************************)
\* the text written after LIMIT in a persons or events query
LimitText(query) ==
    LET i == CHOOSE j \in 1..Len(query) : query[j] = OrderLimit
    IN SubSeq(query, i + 1, Len(query))
LimitIsNatural(query) ==
    /\ \E j \in 1..Len(query) : query[j] = OrderLimit
    /\ LimitText(query) # <<>>
    /\ \A i \in 1..Len(LimitText(query)) : LimitText(query)[i] \in DigitChars
LimitOf(query) == ParseInt(LimitText(query))

\* the first n of rows
Take(rows, n) == SubSeq(rows, 1, IF n < Len(rows) THEN n ELSE Len(rows))

\* the remote evaluates the persons-by-event query of slot s over the rows
\* that match it and answers with the rows its LIMIT keeps
RemotePersons(s, matching) ==
    /\ pc[s] = "fetch" /\ stage[s] = "getPersonsByEvent"
    /\ LimitIsNatural(sent[s][Len(sent[s])])
    /\ matched' = [matched EXCEPT ![s] = matching]
    /\ \E rows \in {Take(matching, LimitOf(sent[s][Len(sent[s])]))} :
           /\ recv' = [recv EXCEPT ![s] = Append(@, OkResponse(rows))]
           /\ Finish(s, Map_getPersonsByEvent(variant, rows))
    /\ UNCHANGED <<variant, now, front, server, op, locals, person, sent>>


NextLimit ==
    \E s \in Sequential :
        \/ \E eventName \in OneString, limit \in {Undefined, Null, Num(1), Num(2)}, from \in FewDates :
               Call_getPersonsByEvent(s, eventName, limit, from, Undefined)
        \/ \E matching \in RowsUpTo(PersonRows, MaxRows + 1) : RemotePersons(s, matching)
        \/ Settle(s)

SpecLimit == Init /\ [][NextLimit]_vars

(***************************************************************************)
(* Configuration.  The repository holds two copies of loadConfig: the one  *)
(* that checks the region runs with the "mcp" copy of the client, the one  *)
(* that casts it with the "client" copy.                                   *)
(***************************************************************************)
UsUrl == "https://us.posthog.com"
EuUrl == "https://eu.posthog.com"
RegionUs == <<"u", "s">>
RegionEu == <<"e", "u">>

getApiBaseUrl(region) == IF region = RegionEu THEN EuUrl ELSE UsUrl
isValidRegion(region) == region = RegionUs \/ region = RegionEu

ConfigError(message) == [ok |-> FALSE, message |-> message]
ConfigOf(env, region) ==
    [ok |-> TRUE,
     config |-> [personalApiKey |-> env.key.v, projectId |-> env.project.v,
                 region |-> region, apiBaseUrl |-> getApiBaseUrl(region)]]

\* loadConfig with isValidRegion
loadConfig_checked(env) ==
    LET regionInput == Coalesce(env.region, Str(RegionUs))
    IN IF ~Truthy(env.key)
       THEN ConfigError(<<"POSTHOG_PERSONAL_API_KEY environment variable is required.">>)
       ELSE IF ~Truthy(env.project)
       THEN ConfigError(<<"POSTHOG_PROJECT_ID environment variable is required.">>)
       ELSE IF ~isValidRegion(regionInput.v)
       THEN ConfigError(<<"POSTHOG_REGION must be \"us\" or \"eu\", got: \"">>
                        \o regionInput.v \o <<"\"">>)
       ELSE ConfigOf(env, regionInput.v)

\* loadConfig with `as PostHogRegion`
loadConfig_cast(env) ==
    LET region == Coalesce(env.region, Str(RegionUs))
    IN IF ~Truthy(env.key)
       THEN ConfigError(<<"POSTHOG_PERSONAL_API_KEY environment variable is required.">>)
       ELSE IF ~Truthy(env.project)
       THEN ConfigError(<<"POSTHOG_PROJECT_ID environment variable is required.">>)
       ELSE ConfigOf(env, region.v)

loadConfig(v, env) ==
    IF v = "mcp" THEN loadConfig_checked(env) ELSE loadConfig_cast(env)

\* process.env: each variable unset or a string
Envs ==
    [key : {Undefined, Str(<<>>), Str(<<"k">>)},
     project : {Undefined, Str(<<"1">>)},
     region : {Undefined, Str(<<>>), Str(RegionUs), Str(RegionEu), Str(<<"x", "x">>)}]

(***************************************************************************)
(* The tool-call server.                                                   *)
(***************************************************************************)
\* main: loadConfig, new PostHogClient, connect; a throw ends the process
\* with status 1
ServerMain(env) ==
    /\ server.state = "down"
    /\ \E loaded \in {loadConfig(variant, env)} :
           server' = IF loaded.ok
                     THEN [state |-> "up", env |-> env, config |-> loaded.config]
                     ELSE [state |-> "exited", env |-> env, code |-> 1,
                           error |-> loaded.message]
    /\ UNCHANGED <<variant, now, pc, op, stage, locals, person, sent, recv,
                   matched, outcome, front>>

isString(value) == value.k = "string"
isOptionalString(value) == value.k \in {"undefined", "string"}
isOptionalNumber(value) == value.k \in {"undefined", "number", "NaN"}

Valid == [ok |-> TRUE]
Invalid(message) == [ok |-> FALSE, message |-> <<message>>]

validateLookupByEmailArgs(args) ==
    IF ~isString(args.email) THEN Invalid("email is required and must be a string")
    ELSE IF ~isOptionalNumber(args.eventsLimit) THEN Invalid("eventsLimit must be a number")
    ELSE IF ~isOptionalString(args.eventType) THEN Invalid("eventType must be a string")
    ELSE IF ~isOptionalString(args.from) THEN Invalid("from must be a string")
    ELSE IF ~isOptionalString(args.to) THEN Invalid("to must be a string")
    ELSE Valid

validateLookupByEventArgs(args) ==
    IF ~isString(args.eventName) THEN Invalid("eventName is required and must be a string")
    ELSE IF ~isOptionalNumber(args.limit) THEN Invalid("limit must be a number")
    ELSE IF ~isOptionalString(args.from) THEN Invalid("from must be a string")
    ELSE IF ~isOptionalString(args.to) THEN Invalid("to must be a string")
    ELSE Valid

validateGetPersonEventsArgs(args) ==
    IF ~isString(args.personId) THEN Invalid("personId is required and must be a string")
    ELSE IF ~isOptionalNumber(args.limit) THEN Invalid("limit must be a number")
    ELSE IF ~isOptionalString(args.eventType) THEN Invalid("eventType must be a string")
    ELSE IF ~isOptionalString(args.from) THEN Invalid("from must be a string")
    ELSE IF ~isOptionalString(args.to) THEN Invalid("to must be a string")
    ELSE Valid

\* the server of src/src/mcp-server.ts validates; the older copy of the
\* server casts (`args as {...}`)
Validate(v, tool, args) ==
    IF v # "mcp" THEN Valid
    ELSE CASE tool = "lookup_person_by_email" -> validateLookupByEmailArgs(args)
           [] tool = "lookup_persons_by_event" -> validateLookupByEventArgs(args)
           [] tool = "get_person_events" -> validateGetPersonEventsArgs(args)

\* a template interpolation `${value.replace(...)}` of a required string: a
\* value that is not a string throws TypeError when the query is built, after
\* the clauses built before it
TextOf(value) == IF value.k = "string" THEN value.v ELSE <<>>
Interpolated(q, value, method) ==
    IF q.ok /\ value.k # "string"
    THEN [ok |-> FALSE,
          err |-> IF value.k \in {"undefined", "null"}
                  THEN "TypeError: Cannot read properties of undefined (reading 'replace')"
                  ELSE "TypeError: replace is not a function",
          locals |-> [method |-> method]]
    ELSE q

ErrorReply(message) == [sent |-> TRUE, isError |-> TRUE, error |-> message]
ResultReply(value) == [sent |-> TRUE, isError |-> FALSE, result |-> value]
NotFoundReply(email) ==
    [sent |-> TRUE, isError |-> FALSE,
     error |-> <<"No person found with email: ">> \o TextOf(email)]

Tools == {"lookup_person_by_email", "lookup_persons_by_event", "get_person_events"}
ToolCallOf(tool, args) == [kind |-> "tool", name |-> tool, args |-> args, reply |-> [sent |-> FALSE]]

\* the client call of each case of the handler, up to its first await
Dispatch(s, tool, args) ==
    CASE tool = "lookup_person_by_email" ->
             /\ op' = [op EXCEPT ![s] =
                          [name |-> "getPersonWithEvents", email |-> args.email,
                           eventsLimit |-> DefaultParam(Coalesce(args.eventsLimit, Num(50)),
                                                        Num(50)),
                           eventType |-> args.eventType,
                           from |-> args.from, to |-> args.to]]
             /\ \E q \in {Interpolated(Query_getPersonByEmail(variant, TextOf(args.email)),
                                       args.email, "getPersonByEmail")} :
                    Enter(s, "getPersonByEmail", q)
      [] tool = "lookup_persons_by_event" ->
             /\ op' = [op EXCEPT ![s] =
                          [name |-> "getPersonsByEvent", eventName |-> args.eventName,
                           limit |-> Coalesce(args.limit, Num(10)),
                           from |-> args.from, to |-> args.to]]
             /\ \E q \in {Interpolated(
                              Query_getPersonsByEvent(variant, TextOf(args.eventName),
                                                      Coalesce(args.limit, Num(10)),
                                                      args.from, args.to, now),
                              args.eventName, "getPersonsByEvent")} :
                    Enter(s, "getPersonsByEvent", q)
      [] tool = "get_person_events" ->
             /\ op' = [op EXCEPT ![s] =
                          [name |-> "getPersonEvents", personId |-> args.personId,
                           limit |-> Coalesce(args.limit, Num(50)),
                           eventType |-> args.eventType,
                           from |-> args.from, to |-> args.to]]
             /\ \E q \in {Interpolated(
                              Query_getPersonEvents(variant, TextOf(args.personId),
                                                    Coalesce(args.limit, Num(50)),
                                                    args.eventType, args.from, args.to, now),
                              args.personId, "getPersonEvents")} :
                    Enter(s, "getPersonEvents", q)

\* the CallTool handler up to its first await: a validation error is caught
\* and returned as an isError response
ToolCall(s, tool, args) ==
    /\ server.state = "up"
    /\ pc[s] = "idle" /\ front[s] = NoFront
    /\ \E checked \in {Validate(variant, tool, args)} :
           IF ~checked.ok
           THEN /\ front' = [front EXCEPT ![s] =
                                [ToolCallOf(tool, args) EXCEPT
                                     !.reply = ErrorReply(checked.message)]]
                /\ UNCHANGED <<pc, op, stage, locals, sent, outcome>>
           ELSE /\ front' = [front EXCEPT ![s] = ToolCallOf(tool, args)]
                /\ Dispatch(s, tool, args)
    /\ UNCHANGED <<variant, now, person, recv, matched, server>>

\* the default case of the handler
ToolCallUnknown(s) ==
    /\ server.state = "up"
    /\ pc[s] = "idle" /\ front[s] = NoFront
    /\ front' = [front EXCEPT ![s] =
                    [ToolCallOf("other", <<>>) EXCEPT
                         !.reply = ErrorReply(<<"Unknown tool: ", "other">>)]]
    /\ UNCHANGED <<variant, now, pc, op, stage, locals, person, sent, recv,
                   matched, outcome, server>>

\* the handler after its client call settled: the result, or the caught error
ToolReturn(s) ==
    /\ front[s].kind = "tool" /\ ~front[s].reply.sent
    /\ pc[s] = "done"
    /\ front' = [front EXCEPT ![s].reply =
                    IF outcome[s].k = "threw" THEN ErrorReply(outcome[s].message)
                    ELSE IF outcome[s].value = NullValue
                    THEN NotFoundReply(front[s].args.email)
                    ELSE ResultReply(outcome[s].value)]
    /\ UNCHANGED <<variant, now, pc, op, stage, locals, person, sent, recv,
                   matched, outcome, server>>

(***************************************************************************)
(* The command-line front end.                                             *)
(***************************************************************************)
\* the longest run of digits at the start of text
RECURSIVE DigitPrefix(_)
DigitPrefix(text) ==
    IF text # <<>> /\ Head(text) \in DigitChars
    THEN <<Head(text)>> \o DigitPrefix(Tail(text))
    ELSE <<>>

\* parseInt(text, 10): an optional sign, then the leading digits; NaN without
\* a digit
parseInt(text) ==
    LET negative == text # <<>> /\ Head(text) = "-"
        digits == DigitPrefix(IF negative THEN Tail(text) ELSE text)
    IN IF digits = <<>> THEN NaN
       ELSE Num(IF negative THEN 0 - ParseInt(digits) ELSE ParseInt(digits))

\* options.events ? parseInt(options.events, 10) : 50
CountOption(option, default) ==
    IF Truthy(option) THEN parseInt(option.v) ELSE Num(default)

CliRunOf(env, options, loaded) ==
    [kind |-> "cli", env |-> env, options |-> options, loaded |-> loaded,
     usage |-> FALSE, exited |-> FALSE, code |-> 0]

\* the action of the command up to its first await, or to its exit: a throw
\* of loadConfig is caught and ends the process with status 1; without
\* --email and --event the usage is printed and program.help() ends the
\* process with status 0
CliRun(s, env, options) ==
    /\ pc[s] = "idle" /\ front[s] = NoFront
    /\ \E loaded \in {loadConfig(variant, env)} :
           IF ~loaded.ok
           THEN /\ front' = [front EXCEPT ![s] =
                                [CliRunOf(env, options, loaded) EXCEPT
                                     !.exited = TRUE, !.code = 1]]
                /\ UNCHANGED <<pc, op, stage, locals, sent, outcome>>
           ELSE IF Truthy(options.email)
           THEN /\ front' = [front EXCEPT ![s] = CliRunOf(env, options, loaded)]
                /\ op' = [op EXCEPT ![s] =
                             [name |-> "getPersonWithEvents", email |-> options.email.v,
                              eventsLimit |-> CountOption(options.events, 50),
                              eventType |-> options.eventType,
                              from |-> options.from, to |-> options.to]]
                /\ \E q \in {Query_getPersonByEmail(variant, options.email.v)} :
                       Enter(s, "getPersonByEmail", q)
           ELSE IF Truthy(options.event)
           THEN /\ front' = [front EXCEPT ![s] = CliRunOf(env, options, loaded)]
                /\ op' = [op EXCEPT ![s] =
                             [name |-> "getPersonsByEvent", eventName |-> options.event.v,
                              limit |-> CountOption(options.limit, 10),
                              from |-> options.from, to |-> options.to]]
                /\ \E q \in {Query_getPersonsByEvent(variant, options.event.v,
                                                     CountOption(options.limit, 10),
                                                     options.from, options.to, now)} :
                       Enter(s, "getPersonsByEvent", q)
           ELSE /\ front' = [front EXCEPT ![s] =
                                [CliRunOf(env, options, loaded) EXCEPT
                                     !.usage = TRUE, !.exited = TRUE, !.code = 0]]
                /\ UNCHANGED <<pc, op, stage, locals, sent, outcome>>
    /\ UNCHANGED <<variant, now, person, recv, matched, server>>

\* the action after its client call settled: process.exit(1) for an absent
\* person and for a caught error, the normal end of the process otherwise
CliEnd(s) ==
    /\ front[s].kind = "cli" /\ ~front[s].exited
    /\ pc[s] = "done"
    /\ front' = [front EXCEPT ![s].exited = TRUE,
                              ![s].code = IF outcome[s].k = "threw" THEN 1
                                          ELSE IF outcome[s].value = NullValue THEN 1
                                          ELSE 0]
    /\ UNCHANGED <<variant, now, pc, op, stage, locals, person, sent, recv,
                   matched, outcome, server>>

\* the front end of slot s has answered or exited; nothing of it remains
FrontSettle(s) ==
    /\ \/ front[s].kind = "tool" /\ front[s].reply.sent
       \/ front[s].kind = "cli" /\ front[s].exited
    /\ front' = [front EXCEPT ![s] = NoFront]
    /\ pc' = [pc EXCEPT ![s] = "idle"]
    /\ op' = [op EXCEPT ![s] = Idle]
    /\ stage' = [stage EXCEPT ![s] = "none"]
    /\ locals' = [locals EXCEPT ![s] = NoLocals]
    /\ person' = [person EXCEPT ![s] = NoPerson]
    /\ sent' = [sent EXCEPT ![s] = <<>>]
    /\ recv' = [recv EXCEPT ![s] = <<>>]
    /\ matched' = [matched EXCEPT ![s] = <<>>]
    /\ outcome' = [outcome EXCEPT ![s] = Pending]
    /\ UNCHANGED <<variant, now, server>>

(***************************************************************************)
(* SpecFront: the tool-call server and the command line, with arguments of *)
(* every type a caller can pass.                                           *)
(***************************************************************************)
ToolArgs(tool) ==
    LET AnyString == {Undefined, Null, Num(5), Str(<<"a">>)}
        AnyNumber == {Undefined, Str(<<"x">>), Num(0), Num(2)}
        AnyDate == {Undefined, Num(5), Str(<<"7", "d">>)}
        AnyTo == {Undefined, Num(5)}
    IN
    CASE tool = "lookup_person_by_email" ->
             [email : AnyString, eventsLimit : AnyNumber, eventType : AnyString,
              from : AnyDate, to : AnyTo]
      [] tool = "lookup_persons_by_event" ->
             [eventName : AnyString, limit : AnyNumber, from : AnyDate, to : AnyTo]
      [] tool = "get_person_events" ->
             [personId : AnyString, limit : AnyNumber, eventType : AnyString,
              from : AnyDate, to : AnyTo]

CliOptions ==
    [email : {Undefined, Str(<<>>), Str(<<"a">>)},
     event : {Undefined, Str(<<"a">>)},
     events : {Str(<<"5", "0">>), Str(<<"2">>), Str(<<"x">>)},
     eventType : {Undefined},
     from : {Undefined, Str(<<"x">>)},
     to : {Undefined},
     limit : {Str(<<"1", "0">>)}]


FrontRespond(s) ==
    \/ RespondError(s, 500, <<"denied">>)
    \/ \E rows \in {<<>>, <<<<<<"p", "1">>, JsonObject>>>>} : RespondPerson(s, rows)
    \/ \E rows \in {<<>>, <<<<<<"p", "1">>, JsonObject>>>>} : RespondPersons(s, rows)
    \/ \E rows \in {<<>>, <<<<<<"pageview">>, <<"t1">>, JsonObject>>>>} : RespondEvents(s, rows)

NextFront ==
    \/ \E env \in Envs : ServerMain(env)
    \/ \E s \in Sequential :
        \/ \E tool \in Tools : \E args \in ToolArgs(tool) : ToolCall(s, tool, args)
        \/ ToolCallUnknown(s)
        \/ ToolReturn(s)
        \/ \E env \in Envs, options \in CliOptions :
               server.state = "down" /\ CliRun(s, env, options)
        \/ CliEnd(s)
        \/ FrontRespond(s)
        \/ FrontSettle(s)

SpecFront == Init /\ [][NextFront]_vars

(***************************************************************************)
(* SpecConcurrent: tool calls of two slots interleaved on one server, that *)
(* is on one PostHogClient.                                                *)
(***************************************************************************)
ConcurrentArgs(tool) ==
    CASE tool = "lookup_person_by_email" ->
             [email : {Str(<<"a">>)}, eventsLimit : {Undefined},
              eventType : {Undefined},
              from : {Undefined, Str(<<"7", "d">>), Str(<<"x">>)}, to : {Undefined}]
      [] tool = "lookup_persons_by_event" ->
             [eventName : {Str(<<"a">>), Str(<<SQ>>)}, limit : {Undefined},
              from : {Undefined}, to : {Undefined}]
      [] tool = "get_person_events" ->
             [personId : {Str(<<"a">>)}, limit : {Undefined, Num(2)},
              eventType : {Undefined}, from : {Undefined}, to : {Undefined}]

NextConcurrent ==
    \/ \E env \in [key : {Str(<<"k">>)}, project : {Str(<<"1">>)},
                  region : {Undefined, Str(RegionEu)}] : ServerMain(env)
    \/ \E s \in Slots :
        \/ \E tool \in Tools : \E args \in ConcurrentArgs(tool) : ToolCall(s, tool, args)
        \/ ToolReturn(s)
        \/ FrontRespond(s)
        \/ FrontSettle(s)

SpecConcurrent == Init /\ [][NextConcurrent]_vars

(***************************************************************************)
(* SpecEscape: the email lookup over every string up to MaxLen of the      *)
(* characters the escaping treats and of the letters its escapes end with. *)
(***************************************************************************)
EscapeChars == {"a", "n", "0", BS, SQ, "NUL", "\n", "\r", "\t"}
RECURSIVE EscapeStringsUpTo(_)
EscapeStringsUpTo(n) ==
    IF n = 0 THEN {<<>>}
    ELSE LET shorter == EscapeStringsUpTo(n - 1)
         IN shorter \cup {Append(t, c) : t \in shorter, c \in EscapeChars}
EscapeStrings == EscapeStringsUpTo(MaxLen)

NextEscape ==
    \E s \in Sequential :
        \/ \E email \in EscapeStrings : Call_getPersonByEmail(s, email)
        \/ RespondError(s, 500, <<>>)
        \/ Settle(s)

SpecEscape == Init /\ [][NextEscape]_vars

(***************************************************************************)
(* SpecJson: each operation answered with one row whose properties column  *)
(* is any JSON text of the model.                                          *)
(***************************************************************************)
NextJson ==
    \E s \in Sequential :
        \/ \E str \in OneString :
               \/ Call_getPersonByEmail(s, str)
               \/ Call_getPersonsByEvent(s, str, Undefined, Undefined, Undefined)
               \/ Call_getPersonEvents(s, str, Undefined, Undefined, Undefined, Undefined)
        \/ \E id \in Ids, json \in JsonTexts \cup JsonPrimitives :
               \/ RespondPerson(s, <<<<id, json>>>>)
               \/ RespondPersons(s, <<<<id, json>>>>)
        \/ \E json \in JsonTexts \cup JsonPrimitives :
               RespondEvents(s, <<<<<<"pageview">>, <<"t1">>, json>>>>)
        \/ Settle(s)

SpecJson == Init /\ [][NextJson]_vars

(***************************************************************************)
(* Properties.                                                             *)
(***************************************************************************)
Last(seq) == seq[Len(seq)]
Contains(text, piece) ==
    \E i \in 0..(Len(text) - Len(piece)) : SubSeq(text, i + 1, i + Len(piece)) = piece
EndsWith(text, piece) ==
    Len(text) >= Len(piece)
    /\ SubSeq(text, Len(text) - Len(piece) + 1, Len(text)) = piece
SingleQueryOps == {"getPersonByEmail", "getPersonsByEvent", "getPersonEvents"}

\* C1: in getPersonWithEvents, an email lookup answered with zero rows ends
\* the operation with null after that one request; an events request is only
\* ever sent after an email lookup that was answered with at least one row.
C1_NotFoundSkipsEvents ==
    \A s \in Slots :
        op[s].name = "getPersonWithEvents" =>
            /\ (Len(recv[s]) >= 1 /\ recv[s][1].ok /\ Len(recv[s][1].results) = 0) =>
                   /\ pc[s] = "done"
                   /\ outcome[s] = Returned(NullValue)
                   /\ Len(sent[s]) = 1
            /\ Len(sent[s]) >= 2 =>
                   /\ Len(recv[s]) >= 1
                   /\ recv[s][1].ok
                   /\ Len(recv[s][1].results) >= 1

C1_Witness ==
    \E s \in Slots :
        /\ op[s].name = "getPersonWithEvents"
        /\ pc[s] = "done"
        /\ Len(recv[s]) = 1 /\ recv[s][1].ok /\ recv[s][1].results = <<>>
        /\ outcome[s] = Returned(NullValue)

\* C4: after a non-success response the operation has failed with an error
\* whose message holds the status code and ends with the raw body text, and it
\* has returned nothing.
C4_ErrorCarriesStatusAndBody ==
    \A s \in Slots :
        (Len(recv[s]) >= 1 /\ ~Last(recv[s]).ok) =>
            /\ pc[s] = "done"
            /\ outcome[s].k = "threw"
            /\ outcome[s].name = "Error"
            /\ Contains(outcome[s].message,
                        NatToText(Last(recv[s]).status) \o <<"): ">>)
            /\ EndsWith(outcome[s].message, <<"): ">> \o Last(recv[s]).text)

C4_Witness ==
    \E s \in Slots :
        /\ op[s].name = "getPersonWithEvents"
        /\ Len(recv[s]) = 2
        /\ Last(recv[s]).status = 500 /\ Last(recv[s]).text = <<"denied">>
        /\ outcome[s].k = "threw"

\* C5: a non-success response is the last thing an operation receives and it
\* sends nothing after it: a failing single-query operation has sent exactly
\* one request, and so has getPersonWithEvents whose email lookup failed.
C5_NeverRetried ==
    \A s \in Slots :
        \A i \in 1..Len(recv[s]) :
            ~recv[s][i].ok =>
                /\ i = Len(recv[s])
                /\ Len(sent[s]) = i
                /\ pc[s] = "done"
                /\ op[s].name \in SingleQueryOps => Len(sent[s]) = 1
                /\ (op[s].name = "getPersonWithEvents" /\ i = 1) => Len(sent[s]) = 1

C5_Witness ==
    \E s \in Slots :
        /\ op[s].name = "getPersonWithEvents"
        /\ Len(recv[s]) = 1 /\ ~recv[s][1].ok
        /\ Len(sent[s]) = 1 /\ pc[s] = "done"

\* the rows of the successful response an ended operation mapped last
MappedRows(s) == Last(recv[s]).results
MappedOk(s) == pc[s] = "done" /\ Len(recv[s]) >= 1 /\ Last(recv[s]).ok
Malformed(json) == ~JSONParse(json).ok

\* C3: no operation fails on parsing a properties column, and every record
\* returned for a row whose properties column is not valid JSON has the empty
\* properties mapping.
C3_MalformedTolerated ==
    \A s \in Slots :
        /\ outcome[s].k = "threw" => outcome[s].name # "SyntaxError"
        /\ (MappedOk(s) /\ outcome[s].k = "returned") =>
            /\ (op[s].name = "getPersonByEmail" /\ Len(MappedRows(s)) >= 1
                /\ Malformed(MappedRows(s)[1][2])) =>
                   outcome[s].value.person.properties = EmptyObject
            /\ op[s].name = "getPersonsByEvent" =>
                   \A i \in 1..Len(MappedRows(s)) :
                       Malformed(MappedRows(s)[i][2]) =>
                           outcome[s].value.items[i].properties = EmptyObject
            /\ op[s].name = "getPersonEvents" =>
                   \A i \in 1..Len(MappedRows(s)) :
                       Malformed(MappedRows(s)[i][3]) =>
                           outcome[s].value.items[i].properties = EmptyObject
            /\ (op[s].name = "getPersonWithEvents" /\ Len(recv[s]) = 2) =>
                   \A i \in 1..Len(MappedRows(s)) :
                       Malformed(MappedRows(s)[i][3]) =>
                           outcome[s].value.events[i].properties = EmptyObject

\* the same for the copy of the client that parses with safeParseJson
C3_SafeCopyTolerates == variant = "mcp" => C3_MalformedTolerated

\* C10: getPersonByEmail answered successfully returns null for zero rows and
\* otherwise a Person made of the first row: its id, no distinct ids, and the
\* properties parsed from its second column.
C10_PersonFromFirstRow ==
    \A s \in Slots :
        (op[s].name = "getPersonByEmail" /\ MappedOk(s)) =>
            IF MappedRows(s) = <<>>
            THEN outcome[s] = Returned(NullValue)
            ELSE /\ outcome[s].k = "returned"
                 /\ outcome[s].value.t = "person"
                 /\ outcome[s].value.person.id = MappedRows(s)[1][1]
                 /\ outcome[s].value.person.distinctIds = <<>>
                 /\ (JSONParse(MappedRows(s)[1][2]).ok
                     /\ JSONParse(MappedRows(s)[1][2]).value.type = "object") =>
                        outcome[s].value.person.properties =
                            JSONParse(MappedRows(s)[1][2]).value

\* the places of a query text where a template opens the literal of a
\* caller-supplied value, and the quote with which the template closes it
OpenerFragments == {SelectPerson, SelectPersons, SelectEvents, " AND event = "}
CloserFragments == {" LIMIT 1", " AND ", " AND event = ", OrderLimit}
Openers(text) ==
    {i \in 2..Len(text) : text[i] = SQ /\ text[i - 1] \in OpenerFragments}
IsCloser(text, j) ==
    j < Len(text) /\ text[j] = SQ /\ text[j + 1] \in CloserFragments
Closer(text, i) ==
    CHOOSE j \in (i + 1)..Len(text) :
        IsCloser(text, j) /\ \A h \in (i + 1)..(j - 1) : ~IsCloser(text, h)

\* the number of consecutive backslashes that end just before place k, none
\* of them before place lo
RECURSIVE BackslashRun(_, _, _)
BackslashRun(text, k, lo) ==
    IF k - 1 >= lo /\ text[k - 1] = BS
    THEN 1 + BackslashRun(text, k - 1, lo)
    ELSE 0

LiteralSafe(text, i) ==
    \A k \in (i + 1)..(Closer(text, i) - 1) :
        text[k] = SQ => BackslashRun(text, k, i + 1) % 2 = 1

\* C2: in every query sent, every single quote inside the literal of a
\* caller-supplied value follows an odd number of consecutive backslashes, so
\* that the literal ends at the quote the template writes.
C2_NoUnescapedQuote ==
    \A s \in Slots :
        \A n \in 1..Len(sent[s]) :
            \A i \in Openers(sent[s][n]) : LiteralSafe(sent[s][n], i)

\* the same for the copy of the client that escapes with escapeHogQLString
C2_EscapingCopySafe == variant = "mcp" => C2_NoUnescapedQuote

\* the same for the copy of the client that parses with safeParseJson
C10_SafeCopyFromFirstRow == variant = "mcp" => C10_PersonFromFirstRow

\* the query-building method of slot s built its query and handed it to fetch
Built(s, method) ==
    locals[s].method = method /\ "timestampClause" \in DOMAIN locals[s]
\* the method of slot s that calls buildTimestampClause has called it
BuilderCalled(s) == locals[s].method \in {"getPersonsByEvent", "getPersonEvents"}
Nullish(x) == x.k \in {"undefined", "null"}
Range(text) == {text[i] : i \in 1..Len(text)}
StartsWith(text, piece) ==
    Len(text) >= Len(piece) /\ SubSeq(text, 1, Len(piece)) = piece

\* the options handed to buildTimestampClause by the method of slot s
OptionsFrom(s) ==
    IF locals[s].method = "getPersonEvents" THEN locals[s].effectiveFrom ELSE op[s].from
OptionsTo(s) == op[s].to

\* neither a relative expression nor a parseable absolute date, and not empty
Unresolvable(x) ==
    x.k = "string" /\ x.v # <<>> /\ ~MatchesRelative(x.v) /\ ~IsIsoDay(x.v)
ResolvesOrUnset(x) ==
    ~Truthy(x) \/ parseRelativeDate(variant, x.v, now).valid
Literal(x) ==
    <<SQ>> \o formatDateForHogQL(parseRelativeDate(variant, x.v, now)).text \o <<SQ>>

\* C6 as stated: with an unresolvable `from` or `to` nothing is raised and the
\* query is built and sent.
C6_InvalidDateStillSent ==
    \A s \in Slots :
        (BuilderCalled(s) /\ (Unresolvable(OptionsFrom(s)) \/ Unresolvable(OptionsTo(s)))) =>
            /\ outcome[s].k # "threw"
            /\ Built(s, locals[s].method)

\* C6 as amended: with a non-empty `from` or `to` that is neither relative nor
\* parseable, the method that builds the timestamp clause throws RangeError
\* (toISOString of an Invalid Date) and its query is never sent: a
\* single-query operation has sent nothing, getPersonWithEvents only its email
\* lookup.
C6_InvalidDateThrows ==
    \A s \in Slots :
        (BuilderCalled(s) /\ (Unresolvable(OptionsFrom(s)) \/ Unresolvable(OptionsTo(s)))) =>
            /\ pc[s] = "done"
            /\ outcome[s] = Threw("RangeError", <<"Invalid time value">>)
            /\ ~Built(s, locals[s].method)
            /\ Len(sent[s]) = (IF op[s].name = "getPersonWithEvents" THEN 1 ELSE 0)
            /\ \A n \in 1..Len(sent[s]) : sent[s][n][1] = SelectPerson

C6_Witness ==
    \E s \in Slots :
        /\ op[s].name = "getPersonWithEvents"
        /\ locals[s].method = "getPersonEvents"
        /\ op[s].from = Str(<<"7", "d">>) /\ op[s].to = Str(<<"x">>)
        /\ outcome[s].k = "threw" /\ Len(sent[s]) = 1

\* 30 days before the clock, as the query writes it
ThirtyDaysAgo == <<SQ>> \o formatDateForHogQL(DateAt(now - 30 * 24)).text \o <<SQ>>

\* C7: an events query built for a call without `from` (undefined or null)
\* holds the lower bound of 30 days ago; a persons-by-event query built for a
\* call without `from` holds no lower bound; an email lookup holds no
\* timestamp bound at all.
C7_DefaultThirtyDays ==
    \A s \in Slots :
        /\ (Built(s, "getPersonEvents") /\ Nullish(op[s].from)) =>
               Contains(Last(sent[s]), <<"timestamp >= ">> \o ThirtyDaysAgo)
        /\ (Built(s, "getPersonsByEvent") /\ Nullish(op[s].from)) =>
               "timestamp >= " \notin Range(Last(sent[s]))
        /\ \A n \in 1..Len(sent[s]) :
               sent[s][n][1] = SelectPerson =>
                   Range(sent[s][n]) \cap {"timestamp >= ", "timestamp <= "} = {}

C7_Witness ==
    \E s \in Slots :
        /\ op[s].name = "getPersonWithEvents"
        /\ Built(s, "getPersonEvents")
        /\ op[s].from = Null
        /\ Len(sent[s]) = 2
        /\ "timestamp >= " \in Range(sent[s][2])

\* the person id an events query of slot s filters on
PersonIdOf(s) ==
    IF op[s].name = "getPersonWithEvents" THEN person[s].id ELSE op[s].personId
EventFilter(value) == <<" AND event = ", SQ>> \o EscapeOf(variant, value) \o <<SQ>>
PersonFilter(s) == <<SelectEvents, SQ>> \o EscapeOf(variant, PersonIdOf(s)) \o <<SQ>>

\* C8 as stated: an events query holds the event filter whenever eventType is
\* a string, and no event filter otherwise.
C8_FilterForEveryString ==
    \A s \in Slots :
        Built(s, "getPersonEvents") =>
            IF op[s].eventType.k = "string"
            THEN Contains(Last(sent[s]), EventFilter(op[s].eventType.v))
            ELSE " AND event = " \notin Range(Last(sent[s]))

\* C8 as amended: for a non-empty eventType the events query is the person_id
\* filter, then the event filter on the eventType as the client escapes it,
\* then the timestamp clause; for an eventType that is undefined, null or the
\* empty string the timestamp clause follows the person_id filter and the
\* query holds no event filter.
C8_FilterForNonEmptyString ==
    \A s \in Slots :
        Built(s, "getPersonEvents") =>
            IF Truthy(op[s].eventType)
            THEN StartsWith(Last(sent[s]),
                            PersonFilter(s) \o EventFilter(op[s].eventType.v)
                            \o locals[s].timestampClause \o <<OrderLimit>>)
            ELSE /\ " AND event = " \notin Range(Last(sent[s]))
                 /\ StartsWith(Last(sent[s]),
                               PersonFilter(s) \o locals[s].timestampClause
                               \o <<OrderLimit>>)

C8_Witness ==
    \E s \in Slots :
        /\ op[s].name = "getPersonWithEvents"
        /\ Built(s, "getPersonEvents")
        /\ op[s].eventType = Str(<<SQ, "a">>)
        /\ locals[s].timestampClause # <<>>
        /\ " AND event = " \in Range(Last(sent[s]))

\* the four forms of the clause for bounds that are set
ClauseFor(from, to, fromSet, toSet) ==
    IF fromSet /\ toSet
    THEN <<" AND ", "timestamp >= ">> \o Literal(from)
         \o <<" AND ", "timestamp <= ">> \o Literal(to)
    ELSE IF fromSet THEN <<" AND ", "timestamp >= ">> \o Literal(from)
    ELSE IF toSet THEN <<" AND ", "timestamp <= ">> \o Literal(to)
    ELSE <<>>

\* C9 as stated: for every options value the builder returns a clause, of the
\* form its set bounds (those that are strings) select.
C9_ClauseForEveryOptions ==
    \A s \in Slots :
        BuilderCalled(s) =>
            /\ Built(s, locals[s].method)
            /\ \A x \in {OptionsFrom(s), OptionsTo(s)} :
                   x.k = "string" => parseRelativeDate(variant, x.v, now).valid
            /\ locals[s].timestampClause =
                   ClauseFor(OptionsFrom(s), OptionsTo(s),
                             OptionsFrom(s).k = "string", OptionsTo(s).k = "string")

\* C9 as amended: a bound counts as set when it is a non-empty string.  When
\* every set bound resolves to a valid date the builder returns the empty
\* text, the lower bound, the upper bound, or the lower bound followed by the
\* upper bound, each written ` AND timestamp >= '<date>'`; when a set bound
\* resolves to an Invalid Date the builder returns nothing and throws
\* RangeError.
C9_ClauseForValidOptions ==
    \A s \in Slots :
        BuilderCalled(s) =>
            IF ResolvesOrUnset(OptionsFrom(s)) /\ ResolvesOrUnset(OptionsTo(s))
            THEN /\ Built(s, locals[s].method)
                 /\ locals[s].timestampClause =
                        ClauseFor(OptionsFrom(s), OptionsTo(s),
                                  Truthy(OptionsFrom(s)), Truthy(OptionsTo(s)))
            ELSE /\ ~Built(s, locals[s].method)
                 /\ outcome[s] = Threw("RangeError", <<"Invalid time value">>)

C9_Witness ==
    \E s \in Slots :
        /\ op[s].name = "getPersonsByEvent"
        /\ Built(s, "getPersonsByEvent")
        /\ op[s].from = Str(<<"1", "m">>) /\ op[s].to = Str(IsoDay)
        /\ Len(locals[s].timestampClause) > 40

\* the requests of slot s that have no response yet
InFlight(s) == Len(sent[s]) - Len(recv[s])
RangeErrorThrown(s) == outcome[s] = Threw("RangeError", <<"Invalid time value">>)

\* C11 as stated: every invocation of a single-query operation has issued
\* exactly one request, getPersonWithEvents one or two; at most one request
\* is in flight, and the second follows the response to the first.
C11_ExactlyOneRequest ==
    \A s \in Slots :
        /\ InFlight(s) \in {0, 1}
        /\ op[s].name \in SingleQueryOps => Len(sent[s]) = 1
        /\ op[s].name = "getPersonWithEvents" =>
               /\ Len(sent[s]) \in {1, 2}
               /\ Len(sent[s]) = 2 => Len(recv[s]) >= 1

\* C11 as amended: getPersonByEmail issues exactly one request;
\* getPersonsByEvent and getPersonEvents issue exactly one unless building the
\* timestamp clause throws RangeError, and then none; getPersonWithEvents
\* issues one or two.  At most one request of an invocation is in flight at
\* any time, and getPersonWithEvents issues its second request only after a
\* successful, non-empty response to its first.
C11_OneRequestUnlessDateThrows ==
    \A s \in Slots :
        /\ InFlight(s) \in {0, 1}
        /\ InFlight(s) = 1 <=> pc[s] = "fetch"
        /\ op[s].name = "getPersonByEmail" => Len(sent[s]) = 1
        /\ op[s].name \in {"getPersonsByEvent", "getPersonEvents"} =>
               Len(sent[s]) = (IF RangeErrorThrown(s) THEN 0 ELSE 1)
        /\ op[s].name = "getPersonWithEvents" =>
               /\ Len(sent[s]) \in {1, 2}
               /\ Len(sent[s]) = 2 =>
                      /\ Len(recv[s]) >= 1
                      /\ recv[s][1].ok /\ Len(recv[s][1].results) >= 1

C11_Witness ==
    \E s \in Slots :
        /\ op[s].name = "getPersonWithEvents"
        /\ Len(sent[s]) = 2 /\ Len(recv[s]) = 2
        /\ outcome[s].k = "returned"

\* the limit getPersonsByEvent was called with, 10 when none was given
CalledLimit(s) == IF op[s].limit.k = "number" THEN op[s].limit.v ELSE 10

\* C12: getPersonsByEvent called with limit L, answered by a remote that
\* applies the LIMIT of the query to the rows that match, returns the Person
\* entries of the first L matching rows (all of them when fewer match), in
\* the order of the rows; it returns nothing only where the properties parse
\* of the client.ts copy throws on one of those rows.
C12_AtMostLimitInOrder ==
    \A s \in Slots :
        (op[s].name = "getPersonsByEvent" /\ pc[s] = "done" /\ Len(recv[s]) = 1) =>
            LET kept == Take(matched[s], CalledLimit(s))
            IN IF outcome[s].k = "returned"
               THEN /\ Len(outcome[s].value.items) <= CalledLimit(s)
                    /\ outcome[s].value.items =
                           [i \in 1..Len(kept) |-> PersonOf(variant, kept[i])]
               ELSE /\ variant = "client"
                    /\ outcome[s].name = "SyntaxError"
                    /\ \E i \in 1..Len(kept) : kept[i][2] = JsonMalformed

C12_Witness ==
    \E s \in Slots :
        /\ op[s].name = "getPersonsByEvent" /\ op[s].limit = Num(2)
        /\ Len(matched[s]) = 3
        /\ matched[s][1][1] # matched[s][2][1]
        /\ outcome[s].k = "returned"
        /\ Len(outcome[s].value.items) = 2
        /\ outcome[s].value.items[1].id = matched[s][1][1]
        /\ outcome[s].value.items[2].id = matched[s][2][1]

\* a required parameter is missing or a parameter has the wrong type
BadToolArgs(tool, args) ==
    \/ \E f \in DOMAIN args \cap {"email", "eventName", "personId"} : ~isString(args[f])
    \/ \E f \in DOMAIN args \cap {"eventType", "from", "to"} : ~isOptionalString(args[f])
    \/ \E f \in DOMAIN args \cap {"eventsLimit", "limit"} : ~isOptionalNumber(args[f])

ToolCallChecked(s) ==
    (front[s].kind = "tool" /\ front[s].name \in Tools) =>
        /\ BadToolArgs(front[s].name, front[s].args) =>
               /\ sent[s] = <<>> /\ pc[s] # "fetch"
               /\ front[s].reply.sent => front[s].reply.isError
        /\ (outcome[s].k = "threw" /\ front[s].reply.sent) => front[s].reply.isError

\* C13: for every call of the three tools, when a required parameter is
\* missing or a parameter has the wrong type no HTTP request is issued and
\* the handler returns an isError response; when the client call fails the
\* handler returns an isError response.
C13_ValidatedBeforeDispatch == \A s \in Slots : ToolCallChecked(s)

\* the same for the server of src/src/mcp-server.ts alone, where the
\* response is returned by the validation itself
C13_ValidatingServerChecks ==
    variant = "mcp" =>
        \A s \in Slots :
            /\ ToolCallChecked(s)
            /\ (front[s].kind = "tool" /\ front[s].name \in Tools
                  /\ BadToolArgs(front[s].name, front[s].args)) =>
                   front[s].reply.sent /\ op[s] = Idle

\* C14: the command line ends with a non-zero status when neither --email
\* nor --event is given, when the email lookup returns absent, and when the
\* client operation or loadConfig fails; it ends with zero only after a
\* lookup that succeeded.
C14_NonZeroExitOnFailure ==
    \A s \in Slots :
        (front[s].kind = "cli" /\ front[s].exited) =>
            /\ front[s].usage => front[s].code # 0
            /\ outcome[s] = Returned(NullValue) => front[s].code # 0
            /\ (outcome[s].k = "threw" \/ ~front[s].loaded.ok) => front[s].code # 0
            /\ front[s].code = 0 =>
                   outcome[s].k = "returned" /\ outcome[s].value # NullValue

\* the exit statuses of the command line as the code gives them: the usage
\* exit is the one zero status without a lookup
C14_ExitStatuses ==
    \A s \in Slots :
        (front[s].kind = "cli" /\ front[s].exited) =>
            front[s].code =
                IF front[s].usage THEN 0
                ELSE IF ~front[s].loaded.ok \/ outcome[s].k = "threw"
                        \/ outcome[s] = Returned(NullValue)
                THEN 1 ELSE 0

\* the environment for which loadConfig has to fail
MustFail(env) ==
    \/ env.key.k = "undefined"
    \/ env.project.k = "undefined"
    \/ env.region.k = "string" /\ ~isValidRegion(env.region.v)
RegionUrl(env) == IF env.region = Str(RegionEu) THEN EuUrl ELSE UsUrl

ConfigChecked ==
    /\ server.state # "down" =>
           /\ MustFail(server.env) => server.state = "exited"
           /\ server.state = "up" => server.config.apiBaseUrl = RegionUrl(server.env)
    /\ \A s \in Slots :
           front[s].kind = "cli" =>
               /\ MustFail(front[s].env) =>
                      /\ ~front[s].loaded.ok
                      /\ sent[s] = <<>> /\ op[s] = Idle
               /\ front[s].loaded.ok =>
                      front[s].loaded.config.apiBaseUrl = RegionUrl(front[s].env)

\* C15: loadConfig fails, before a client is constructed or a request sent,
\* when the credential or the project identifier is absent or the region is
\* neither "us" nor "eu"; when it succeeds the base URL is that of the
\* selected region, "us" without a region.
C15_ConfigValidated == ConfigChecked

\* the same for the copy of loadConfig that calls isValidRegion
C15_CheckingCopyValidates == variant = "mcp" => ConfigChecked

\* the first query of the operation o of a tool call, built on its own
AloneFirst(o) ==
    CASE o.name = "getPersonWithEvents" ->
             Interpolated(Query_getPersonByEmail(variant, TextOf(o.email)),
                          o.email, "getPersonByEmail")
      [] o.name = "getPersonsByEvent" ->
             Interpolated(Query_getPersonsByEvent(variant, TextOf(o.eventName), o.limit,
                                                  o.from, o.to, now),
                          o.eventName, "getPersonsByEvent")
      [] o.name = "getPersonEvents" ->
             Interpolated(Query_getPersonEvents(variant, TextOf(o.personId), o.limit,
                                                o.eventType, o.from, o.to, now),
                          o.personId, "getPersonEvents")

AloneRun(queries, result) == [sent |-> queries, outcome |-> result]

\* the events lookup of getPersonWithEvents for the person p, on its own
AloneEvents(o, responses, first, p) ==
    LET q == Query_getPersonEvents(variant, p.id, o.eventsLimit, o.eventType,
                                   o.from, o.to, now)
    IN IF ~q.ok THEN AloneRun(<<first>>, ThrownBy(q.err))
       ELSE IF Len(responses) < 2 THEN AloneRun(<<first, q.text>>, Pending)
       ELSE IF ~responses[2].ok
       THEN AloneRun(<<first, q.text>>, ApiError(responses[2].status, responses[2].text))
       ELSE LET e == Map_getPersonEvents(variant, responses[2].results)
            IN AloneRun(<<first, q.text>>,
                        IF e.k = "threw" THEN e
                        ELSE Returned(PersonWithEventsValue(p, e.value.items)))

\* the queries and the outcome of the operation o run alone, with the same
\* responses
Alone(o, responses) ==
    LET q == AloneFirst(o)
    IN IF ~q.ok THEN AloneRun(<<>>, ThrownBy(q.err))
       ELSE IF responses = <<>> THEN AloneRun(<<q.text>>, Pending)
       ELSE IF ~responses[1].ok
       THEN AloneRun(<<q.text>>, ApiError(responses[1].status, responses[1].text))
       ELSE IF o.name = "getPersonsByEvent"
       THEN AloneRun(<<q.text>>, Map_getPersonsByEvent(variant, responses[1].results))
       ELSE IF o.name = "getPersonEvents"
       THEN AloneRun(<<q.text>>, Map_getPersonEvents(variant, responses[1].results))
       ELSE LET r == Map_getPersonByEmail(variant, responses[1].results)
            IN IF r.k = "threw" \/ r.value = NullValue
               THEN AloneRun(<<q.text>>, r)
               ELSE AloneEvents(o, responses, q.text, r.value.person)

\* C16: under every interleaving of the calls, requests and responses of two
\* operations on one client, the queries each operation has sent and the
\* outcome it has are those of the same operation run alone with the same
\* arguments and the same responses, and the configuration of the client is
\* the one it was constructed with.
C16_ConcurrentAsAlone ==
    /\ \A s \in Slots :
           op[s].name # "none" =>
               /\ sent[s] = Alone(op[s], recv[s]).sent
               /\ outcome[s] = Alone(op[s], recv[s]).outcome
    /\ server.state = "up" =>
           server.config = loadConfig(variant, server.env).config

C16_Witness ==
    /\ server.state = "up"
    /\ \A s \in Slots :
           /\ op[s].name = "getPersonWithEvents"
           /\ pc[s] = "fetch" /\ Len(sent[s]) = 2
    /\ op["A"].from # op["B"].from

\* the amount and the unit of a relative expression
AmountOf(text) == ParseInt(SubSeq(text, 1, Len(text) - 1))
UnitOf(text) == text[Len(text)]

\* the calendar fields n months before those of t: the same day and hour in
\* the month n earlier
MonthsEarlier(t, n) ==
    LET c == Civil(t)
        index == c.y * 12 + c.m - n
    IN [y |-> index \div 12, m |-> index % 12, d |-> c.d, h |-> c.h]

\* n months before t as Date.setMonth gives it: a day the earlier month does
\* not have is counted on into the month that follows
RolledMonthsEarlier(t, n) ==
    LET f == MonthsEarlier(t, n)
        days == DaysInMonth(f.y, f.m)
    IN IF f.d <= days THEN f
       ELSE [y |-> (f.y * 12 + f.m + 1) \div 12, m |-> (f.m + 1) % 12,
             d |-> f.d - days, h |-> f.h]

\* calendar fields as the query writes them
FieldsLiteral(f) ==
    <<SQ>> \o Pad(NatToText(f.y), 4) \o <<"-">> \o Pad(NatToText(f.m + 1), 2) \o <<"-">>
    \o Pad(NatToText(f.d), 2) \o <<" ">> \o Pad(NatToText(f.h), 2)
    \o <<":", "0", "0", ":", "0", "0", ".", "0", "0", "0", SQ>>
PointLiteral(t) == FieldsLiteral(Civil(t))

\* the literal of a relative expression; months counted with or without the
\* rollover
RelativeLiteral(text, rolled) ==
    CASE UnitOf(text) = "h" -> PointLiteral(now - AmountOf(text))
      [] UnitOf(text) = "d" -> PointLiteral(now - 24 * AmountOf(text))
      [] UnitOf(text) = "w" -> PointLiteral(now - 24 * 7 * AmountOf(text))
      [] UnitOf(text) = "m" ->
             FieldsLiteral(IF rolled THEN RolledMonthsEarlier(now, AmountOf(text))
                           ELSE MonthsEarlier(now, AmountOf(text)))

\* the bounds of a built timestamp clause: comparison and option
BoundsOf(s) ==
    {b \in {<<"timestamp >= ", OptionsFrom(s)>>, <<"timestamp <= ", OptionsTo(s)>>} :
         Truthy(b[2])}

\* what the resolver does with the set bounds of slot s
ResolvedAs(s, rolled) ==
    BuilderCalled(s) =>
        /\ \A b \in BoundsOf(s) :
               /\ MatchesRelative(b[2].v) =>
                      /\ parseRelativeDate(variant, b[2].v, now).valid
                      /\ parseRelativeDate(variant, b[2].v, now).t <= now
                      /\ Built(s, locals[s].method) =>
                             Contains(locals[s].timestampClause,
                                      <<b[1]>> \o RelativeLiteral(b[2].v, rolled))
               /\ ~MatchesRelative(b[2].v) =>
                      /\ parseRelativeDate(variant, b[2].v, now) = NewDate(b[2].v)
                      /\ Built(s, locals[s].method) =>
                             Contains(locals[s].timestampClause,
                                      <<b[1]>> \o PointLiteral(NewDate(b[2].v).t))
        /\ Built(s, locals[s].method) <=>
               \A b \in BoundsOf(s) : MatchesRelative(b[2].v) \/ IsIsoDay(b[2].v)

Unescaped(c) ==
    CASE c = "0" -> "NUL"
      [] c = "n" -> "\n"
      [] c = "r" -> "\r"
      [] c = "t" -> "\t"
      [] OTHER -> c

\* escaped text read left to right, a backslash taking the character after it
RECURSIVE Unescape(_)
Unescape(text) ==
    IF text = <<>> THEN <<>>
    ELSE IF Head(text) = BS /\ Len(text) >= 2
    THEN <<Unescaped(text[2])>> \o Unescape(SubSeq(text, 3, Len(text)))
    ELSE <<Head(text)>> \o Unescape(Tail(text))

\* the text between the quotes of the literal of an email lookup
EmailLiteral(query) == SubSeq(query, 3, Len(query) - 2)

\* C18: in the copy that escapes with escapeHogQLString, the literal of every
\* email lookup, read back pair by pair, is the email the lookup was called
\* with, and it is the text escapeHogQLString gives; so two emails never
\* share a literal.
C18_EscapingInvertible ==
    \A s \in Slots :
        (variant = "mcp" /\ op[s].name = "getPersonByEmail" /\ sent[s] # <<>>) =>
            /\ EmailLiteral(sent[s][1]) = escapeHogQLString(op[s].email)
            /\ Unescape(EmailLiteral(sent[s][1])) = op[s].email
            /\ \A other \in EscapeStrings :
                   escapeHogQLString(other) = EmailLiteral(sent[s][1]) =>
                       other = op[s].email

C18_Witness ==
    \E s \in Slots :
        /\ variant = "mcp" /\ op[s].name = "getPersonByEmail"
        /\ op[s].email = <<BS, "n">>
        /\ sent[s] # <<>>
        /\ EmailLiteral(sent[s][1]) = <<BS, BS, "n">>

\* the properties column of the rows mapped by the operation of slot s, and
\* the properties of the records it returned
PropertiesColumn(s) == IF op[s].name = "getPersonEvents" THEN 3 ELSE 2
ReturnedProperties(s) ==
    IF op[s].name = "getPersonByEmail"
    THEN <<outcome[s].value.person.properties>>
    ELSE [i \in 1..Len(outcome[s].value.items) |-> outcome[s].value.items[i].properties]

\* C19: every record returned for a row whose properties column is valid
\* JSON but not an object has the empty properties mapping, and every record
\* returned for a row whose properties column is a JSON object has that
\* object as its properties.
C19_OnlyObjectsPassThrough ==
    \A s \in Slots :
        (op[s].name \in SingleQueryOps /\ MappedOk(s) /\ outcome[s].k = "returned"
           /\ outcome[s].value # NullValue) =>
            \A i \in 1..Len(ReturnedProperties(s)) :
                LET parsed == JSONParse(MappedRows(s)[i][PropertiesColumn(s)])
                IN parsed.ok =>
                       ReturnedProperties(s)[i] =
                           IF parsed.value.type = "object" THEN parsed.value
                           ELSE EmptyObject

\* the same for the copy that maps rows with safeParseJson
C19_SafeCopyOnlyObjects == variant = "mcp" => C19_OnlyObjectsPassThrough

\* C20: every query sent by getPersonEvents, whatever `from` it was called
\* with, holds a `timestamp >=` lower bound.
C20_EventsAlwaysBounded ==
    \A s \in Slots :
        Built(s, "getPersonEvents") => "timestamp >= " \in Range(Last(sent[s]))

\* the queries of getPersonEvents without a lower bound are those of a call
\* with the empty string as `from`
C20_UnboundedOnlyForEmptyFrom ==
    \A s \in Slots :
        Built(s, "getPersonEvents") =>
            ("timestamp >= " \in Range(Last(sent[s])) <=> op[s].from # Str(<<>>))

\* the queries slot s has sent that end with a LIMIT written from a caller's
\* limit: those of getPersonsByEvent and getPersonEvents
LimitedQueries(s) == {i \in 1..Len(sent[s]) : OrderLimit \in Range(sent[s][i])}

\* C21: in every query sent by getPersonsByEvent and getPersonEvents, through
\* the client, the command line or the tool-call server, the value written
\* after LIMIT is a positive integer.
C21_LimitPositiveInteger ==
    \A s \in Slots : \A i \in LimitedQueries(s) :
        LimitIsNatural(sent[s][i]) /\ LimitOf(sent[s][i]) > 0

\* the same for the server that validates its arguments and the client it
\* embeds
C21_ValidatingServerLimitPositive ==
    variant = "mcp" =>
        \A s \in Slots : \A i \in LimitedQueries(s) :
            front[s].kind = "tool" =>
                LimitIsNatural(sent[s][i]) /\ LimitOf(sent[s][i]) > 0

\* a caller that gives no limit gets LIMIT 10 from getPersonsByEvent and
\* LIMIT 50 from getPersonEvents
C21_DefaultLimitWritten ==
    \A s \in Slots : \A i \in LimitedQueries(s) :
        (pc[s] = "fetch" /\ i = Len(sent[s]) /\ op[s].name # "getPersonWithEvents"
         /\ Nullish(op[s].limit)) =>
            /\ LimitIsNatural(sent[s][i])
            /\ LimitOf(sent[s][i]) = IF op[s].name = "getPersonsByEvent" THEN 10 ELSE 50

====
